---- MODULE Spec2Model ----
(***************************************************************************)
(* Flicker: the skeleton-placeholder plugin of "Flicker - 13 Jul/code.js". *)
(*                                                                         *)
(* The document is a tree of scene nodes owned by the host platform.  A    *)
(* run (createSkeletonVersion) walks the current selection; each selected  *)
(* root is converted in place (nested frame) or cloned and the clone       *)
(* converted (top-level frame): instances are detached, the convertible    *)
(* nodes are collected depth-first and rewritten in reverse order.         *)
(*                                                                         *)
(* Lengths are integers in hundredths of a pixel (Px(4) is 4px), so that   *)
(* 0.6 * width, 1.2 * fontSize, fontSize * percent / 100 and min(w,h)/2    *)
(* are exact.  A platform call that can throw is a nondeterministic        *)
(* choice between its success and its failure; the number of injected      *)
(* failures per behaviour is bounded by MaxFaults.                         *)
(***************************************************************************)
EXTENDS Integers, Sequences, FiniteSets, TLC

VARIABLES
  nodes,                 \* the scene graph: node id -> node record
  nextId,                \* next fresh node identity handed out by the platform
  selection,             \* figma.currentPage.selection
  notifiedFontFamilies,  \* module-level Set of code.js:28
  notices,               \* every figma.notify so far, in order
  inbox,                 \* UI messages not yet delivered to figma.ui.onmessage
  run,                   \* one record per delivered create-skeleton message
  unloadable,            \* the font families figma.loadFontAsync rejects
  faults,                \* platform failures injected so far
  madeFor,               \* history: placeholder id -> [src, line, by] of its making
  turnDone,              \* history: the nodes whose rewrite turn has completed
  failed,                \* history: the <<node, call>> pairs that threw
  before,                \* history: parent -> its children when last collected
  nodes0,                \* history: the scene graph before any message
  fragile                \* the platform calls that can throw in this session

vars == <<nodes, nextId, selection, notifiedFontFamilies, notices, inbox, run,
          unloadable, faults, madeFor, turnDone, failed, before, nodes0,
          fragile>>

----------------------------------------------------------------------------
(* Bounds of the model *)

MaxSel == 2
MaxFaults == 1
MaxNodes == 48
MaxBars == 12

(* Program constants *)

NoNode == 0
Page == 1
DefaultRadius == 24
MinSize == 4
FallbackFontSize == 16
MinBarHeight == 6
ClonePadding == 50
DefaultRectSize == 100
Infinite == -1

Px(n) == n * 100

----------------------------------------------------------------------------
(* Small helpers on sequences *)

SeqToSet(s) == {s[k] : k \in 1..Len(s)}

IndexOf(s, e) ==
  IF \E k \in 1..Len(s) : s[k] = e
  THEN (CHOOSE k \in 1..Len(s) : s[k] = e /\ \A m \in 1..(k-1) : s[m] # e) - 1
  ELSE -1

Without(s, e) == SelectSeq(s, LAMBDA v : v # e)

\* Array.prototype.splice(idx, 0, e) with a 0-based index
InsertAt(s, idx, e) ==
  SubSeq(s, 1, idx) \o <<e>> \o SubSeq(s, idx + 1, Len(s))

Min(a, b) == IF a < b THEN a ELSE b
Max(a, b) == IF a > b THEN a ELSE b

\* Math.round of the rational a / b for b > 0: the nearest integer, halves up
RoundDiv(a, b) == (2 * a + b) \div (2 * b)

----------------------------------------------------------------------------
(* Scene nodes *)

AutoLineHeight == [unit |-> "AUTO", value |-> 0]

NewNode(type, name, x, y, w, h, children, parent) ==
  [type |-> type, name |-> name, visible |-> TRUE, locked |-> FALSE,
   x |-> Px(x), y |-> Px(y), width |-> Px(w), height |-> Px(h),
   children |-> children, parent |-> parent,
   ranges |-> <<>>, lineHeight |-> AutoLineHeight,
   cornerRadius |-> 0, fills |-> "DEFAULT"]

\* A text node: one [family, size] entry per character sub-range
NewText(name, x, y, w, h, parent, ranges, lineHeight) ==
  [NewNode("TEXT", name, x, y, w, h, <<>>, parent)
     EXCEPT !.ranges = ranges, !.lineHeight = lineHeight]

Uniform(family, size) == <<[family |-> family, size |-> size]>>

\* textNode.fontName is figma.mixed when the sub-ranges differ in family
FontIsMixed(node) == \E a, b \in 1..Len(node.ranges) :
                        node.ranges[a].family # node.ranges[b].family
\* textNode.fontSize is figma.mixed when the sub-ranges differ in size
SizeIsMixed(node) == \E a, b \in 1..Len(node.ranges) :
                        node.ranges[a].size # node.ranges[b].size

RECURSIVE Attached(_, _)
\* whether node n hangs (through parents) under the page
Attached(ns, n) ==
  IF n = Page THEN TRUE
  ELSE IF n = NoNode \/ n \notin DOMAIN ns THEN FALSE
  ELSE /\ ns[n].parent # NoNode
       /\ ns[n].parent \in DOMAIN ns
       /\ n \in SeqToSet(ns[ns[n].parent].children)
       /\ Attached(ns, ns[n].parent)

RECURSIVE Preorder(_, _)
RECURSIVE PreorderAll(_, _)
\* the subtree of n, depth first, parents before children
Preorder(ns, n) == <<n>> \o PreorderAll(ns, ns[n].children)
PreorderAll(ns, kids) ==
  IF kids = <<>> THEN <<>>
  ELSE Preorder(ns, Head(kids)) \o PreorderAll(ns, Tail(kids))

Subtree(ns, n) == SeqToSet(Preorder(ns, n))

----------------------------------------------------------------------------
(* Platform operations on the scene graph *)

\* node.remove(): the node leaves its parent's children
RemoveNode(ns, n) ==
  LET p == ns[n].parent IN
  IF p = NoNode THEN ns
  ELSE [ns EXCEPT ![p].children = Without(@, n), ![n].parent = NoNode]

\* parent.insertChild(index, child): the child leaves its old parent first
InsertChild(ns, p, idx, c) ==
  LET off == RemoveNode(ns, c) IN
  [off EXCEPT ![p].children = InsertAt(@, idx, c), ![c].parent = p]

\* parent.appendChild(child)
AppendChild(ns, p, c) == InsertChild(ns, p, Len(RemoveNode(ns, c)[p].children), c)

\* figma.createRectangle(): a 100x100 rectangle parented under the page
CreateRectangle(ns, id) ==
  LET rect == NewNode("RECTANGLE", "Rectangle", 0, 0, DefaultRectSize,
                      DefaultRectSize, <<>>, Page)
  IN  [k \in DOMAIN ns \cup {id} |->
         IF k = id THEN rect
         ELSE IF k = Page THEN [ns[k] EXCEPT !.children = Append(@, id)]
         ELSE ns[k]]

\* node.clone(): a deep copy with fresh identities, parented under the page
CloneNode(ns, n, first) ==
  LET order == Preorder(ns, n)
      fresh(k) == first + IndexOf(order, k)
      ids == {fresh(k) : k \in SeqToSet(order)}
      src(c) == CHOOSE k \in SeqToSet(order) : fresh(k) = c
      copy(c) == [ns[src(c)] EXCEPT
                    !.children = [m \in 1..Len(@) |-> fresh(@[m])],
                    !.parent = IF src(c) = n THEN Page ELSE fresh(@)]
  IN  [k \in DOMAIN ns \cup ids |->
         IF k \in ids THEN copy(k)
         ELSE IF k = Page THEN [ns[k] EXCEPT !.children = Append(@, first)]
         ELSE ns[k]]

CloneSize(ns, n) == Len(Preorder(ns, n))

----------------------------------------------------------------------------
(* 4.1 Eligibility: shouldConvertToSkeleton *)

ConvertibleTypes ==
  {"TEXT", "RECTANGLE", "ELLIPSE", "VECTOR", "POLYGON", "STAR",
   "BOOLEAN_OPERATION", "LINE"}

\* a null node reference
Null == [type |-> "null"]

\* faulty variant: the size test is forgotten
shouldConvertWhateverSize(node) ==
  IF node = Null THEN FALSE
  ELSE IF node.visible = FALSE THEN FALSE
  ELSE node.type \in ConvertibleTypes

shouldConvertToSkeleton(node) ==
  IF node = Null THEN FALSE
  ELSE IF node.visible = FALSE THEN FALSE
  ELSE IF node.width < Px(MinSize) \/ node.height < Px(MinSize) THEN FALSE
  ELSE node.type \in ConvertibleTypes

RECURSIVE collectElements(_, _)
RECURSIVE collectChildren(_, _)
RECURSIVE collectChildrenLastFirst(_, _)
\* faulty variant: the children are visited from the last to the first
collectChildrenLastFirst(ns, kids) ==
  IF kids = <<>> THEN <<>>
  ELSE collectChildrenLastFirst(ns, Tail(kids)) \o collectElements(ns, Head(kids))

\* 4.4 depth-first pre-order worklist of the convertible nodes under n
collectElements(ns, n) ==
  (IF shouldConvertToSkeleton(ns[n]) THEN <<n>> ELSE <<>>)
    \o collectChildren(ns, ns[n].children)
collectChildren(ns, kids) ==
  IF kids = <<>> THEN <<>>
  ELSE collectElements(ns, Head(kids)) \o collectChildren(ns, Tail(kids))

----------------------------------------------------------------------------
(* 4.2 Text metrics: getFontSizeAndLoadFont and the line-height switch *)

FallbackFonts == <<"Inter", "Roboto", "SF Pro Text", "Helvetica">>

\* figma.loadFontAsync(font) resolves
Loadable(family) == family \notin unloadable

RECURSIVE MaxRangeSize(_, _)
\* the running maximum of lines 366-377 over the character sub-ranges
MaxRangeSize(ranges, start) ==
  IF ranges = <<>> THEN start
  ELSE MaxRangeSize(Tail(ranges),
                    IF Head(ranges).size > start THEN Head(ranges).size ELSE start)

\* faulty variant: a text node is rewritten whether or not a font loads
getFontSizeAndLoadFontUnchecked(node) ==
  [ok |-> TRUE,
   fontSize |-> IF FontIsMixed(node)
                THEN MaxRangeSize(node.ranges, FallbackFontSize)
                ELSE IF SizeIsMixed(node) THEN FallbackFontSize
                ELSE node.ranges[1].size,
   family |-> IF FontIsMixed(node) THEN "MIXED" ELSE node.ranges[1].family]

\* [ok, fontSize, family]: ok = FALSE is the rethrown font error of line 399
getFontSizeAndLoadFont(node) ==
  IF ~FontIsMixed(node)
  THEN LET family == node.ranges[1].family
           loaded == \/ Loadable(family)
                     \/ \E k \in 1..Len(FallbackFonts) : Loadable(FallbackFonts[k])
       IN  [ok |-> loaded,
            fontSize |-> IF SizeIsMixed(node) THEN FallbackFontSize
                         ELSE node.ranges[1].size,
            family |-> family]
  ELSE [ok |-> TRUE,
        fontSize |-> MaxRangeSize(node.ranges, FallbackFontSize),
        family |-> "MIXED"]

\* lineHeightValue of lines 412-427, in hundredths of a pixel
LineHeightValue(node, fontSize) ==
  CASE node.lineHeight.unit = "AUTO"    -> fontSize * 120
    [] node.lineHeight.unit = "PIXELS"  -> Px(node.lineHeight.value)
    [] node.lineHeight.unit = "PERCENT" -> fontSize * node.lineHeight.value
    [] OTHER                            -> fontSize * 120

\* faulty variant: the quotient is truncated instead of rounded
LineCountTruncated(height, lineHeightValue) ==
  IF lineHeightValue > 0 THEN Max(1, height \div lineHeightValue)
  ELSE IF lineHeightValue = 0 THEN Infinite
  ELSE 1

\* Math.max(1, Math.round(height / lineHeightValue)); the quotient by 0 is Infinity
LineCount(height, lineHeightValue) ==
  IF lineHeightValue > 0 THEN Max(1, RoundDiv(height, lineHeightValue))
  ELSE IF lineHeightValue = 0 THEN Infinite
  ELSE 1

\* Math.max(6, Math.round(fontSize * 0.7)), in hundredths of a pixel
SkeletonHeight(fontSize) == Px(Max(MinBarHeight, RoundDiv(7 * fontSize, 10)))

\* width of bar i (0-based) of lineCount bars: the last one is shorter
BarWidth(width, i, lineCount) ==
  IF i = lineCount - 1 THEN (width * 6) \div 10 ELSE width

----------------------------------------------------------------------------
(* The documents and messages a behaviour starts from *)

Brand == "Brand"
Mono == "Mono"

Number(v) == [kind |-> "number", val |-> v]

CreateSkeleton(radius) == [type |-> "create-skeleton", cornerRadius |-> radius]

\* Page
\*   Card FRAME            [Title TEXT, Inner FRAME, Avatar ELLIPSE]
\*     Inner FRAME         [Body TEXT, Icon INSTANCE [Glyph VECTOR], Dot RECT 2x2]
\*   Badge COMPONENT       [Stamp RECT, Label TEXT]
\*   Locked / Hidden / Small FRAMEs
CardsDocument ==
  LET page   == NewNode("PAGE", "Page", 0, 0, 0, 0, <<2, 10, 12, 13, 14>>, NoNode)
      card   == NewNode("FRAME", "Card", 0, 0, 200, 100, <<3, 4, 5>>, Page)
      title  == NewText("Title", 10, 10, 100, 40, 2, Uniform(Brand, 16),
                        [unit |-> "PIXELS", value |-> 20])
      inner  == NewNode("FRAME", "Inner", 10, 50, 180, 50, <<6, 7, 9>>, 2)
      avatar == NewNode("ELLIPSE", "Avatar", 150, 10, 40, 60, <<>>, 2)
      body   == NewText("Body", 0, 0, 120, 20, 4, Uniform(Brand, 16), AutoLineHeight)
      icon   == NewNode("INSTANCE", "Icon", 130, 0, 24, 24, <<8>>, 4)
      glyph  == NewNode("VECTOR", "Glyph", 4, 4, 16, 16, <<>>, 7)
      dot    == NewNode("RECTANGLE", "Dot", 170, 0, 2, 2, <<>>, 4)
      badge  == NewNode("COMPONENT", "Badge", 0, 200, 100, 40, <<15, 11>>, Page)
      label  == NewText("Label", 5, 5, 90, 17, 10, Uniform(Mono, 14), AutoLineHeight)
      locked == [NewNode("FRAME", "Locked", 300, 0, 50, 50, <<>>, Page)
                   EXCEPT !.locked = TRUE]
      hidden == [NewNode("FRAME", "Hidden", 300, 100, 50, 50, <<>>, Page)
                   EXCEPT !.visible = FALSE]
      small  == NewNode("FRAME", "Small", 300, 200, 3, 50, <<>>, Page)
      stamp  == NewNode("RECTANGLE", "Stamp", 5, 25, 30, 10, <<>>, 10)
  IN  <<page, card, title, inner, avatar, body, icon, glyph, dot, badge, label,
        locked, hidden, small, stamp>>

CardsCandidates == {2, 3, 4, 7, 10}

\* the locked, the hidden and the too-small frame, selected alone or before Icon
CardsUnusable == {12, 13, 14}

\* every ordered selection of at most MaxSel distinct nodes
Selections(cands, n) ==
  {s \in UNION {[1..k -> cands] : k \in 0..n} :
     \A a, b \in DOMAIN s : a # b => s[a] # s[b]}

AllFonts == {Brand, Mono} \cup SeqToSet(FallbackFonts)

FontOutages == {{}, {Brand}, {Brand, "Inter", "Roboto"}, AllFonts}

InitCommon ==
  /\ notifiedFontFamilies = {}
  /\ notices = <<>>
  /\ run = <<>>
  /\ faults = 0
  /\ madeFor = <<>>
  /\ turnDone = {}
  /\ failed = {}
  /\ before = <<>>
  /\ nodes0 = nodes

\* every platform call the plugin makes on the scene graph
PlatformCalls == {"clone", "detach", "create", "x", "y", "resize", "fills",
                  "cornerRadius", "name", "insert", "remove"}

\* the calls that make, move or delete nodes
TreeCalls == {"clone", "detach", "create", "insert", "remove"}

InitCards ==
  /\ nodes = CardsDocument
  /\ fragile = TreeCalls
  /\ nextId = Len(CardsDocument) + 1
  /\ selection \in Selections(CardsCandidates, MaxSel) \cup
                 {<<u>> \o s : u \in CardsUnusable, s \in Selections({7}, 1)}
  /\ unloadable \in FontOutages
  /\ inbox = <<CreateSkeleton(Number(8))>>
  /\ InitCommon

\* Page
\*   Lab FRAME             [one child: a text node or a shape]
LabDocument(child) ==
  <<NewNode("PAGE", "Page", 0, 0, 0, 0, <<2>>, NoNode),
    NewNode("FRAME", "Lab", 0, 0, 300, 200, <<3>>, Page),
    child>>

LabRanges ==
  {Uniform(Brand, 16), Uniform(Brand, 5), Uniform(Brand, 15),
   <<[family |-> Brand, size |-> 12], [family |-> Mono, size |-> 20]>>,
   <<[family |-> Brand, size |-> 10], [family |-> Mono, size |-> 12]>>,
   <<[family |-> Brand, size |-> 12], [family |-> Brand, size |-> 20]>>}

LabLineHeights ==
  {AutoLineHeight,
   [unit |-> "PIXELS", value |-> 20],
   [unit |-> "PIXELS", value |-> 0],
   [unit |-> "PIXELS", value |-> -5],
   [unit |-> "PERCENT", value |-> 150],
   [unit |-> "PERCENT", value |-> 0],
   [unit |-> "MIXED", value |-> 0]}

LabTextHeights == {20, 50, 60}

LabTextWidths == {45, 100}

InitTextLab ==
  /\ \E ranges \in LabRanges, lh \in LabLineHeights,
        h \in LabTextHeights, w \in LabTextWidths :
       nodes = LabDocument(NewText("Copy", 20, 30, w, h, 2, ranges, lh))
  /\ nextId = 4
  /\ selection = <<2>>
  /\ unloadable \in {{}, AllFonts}
  /\ fragile = PlatformCalls
  /\ inbox = <<CreateSkeleton(Number(8))>>
  /\ InitCommon

LabShapeSizes == {<<40, 60>>, <<60, 40>>, <<50, 50>>, <<4, 90>>}

LabRadii ==
  {Number(0), Number(8), Number(24), Number(-5),
   [kind |-> "string", val |-> 0], [kind |-> "undefined", val |-> 0]}

InitShapeLab ==
  /\ \E type \in {"ELLIPSE", "RECTANGLE", "TEXT"}, size \in LabShapeSizes :
       nodes = LabDocument(
                 IF type = "TEXT"
                 THEN NewText("Shape", 20, 30, size[1], size[2], 2,
                              Uniform(Brand, 16), AutoLineHeight)
                 ELSE NewNode(type, "Shape", 20, 30, size[1], size[2], <<>>, 2))
  /\ nextId = 4
  /\ selection = <<2>>
  /\ unloadable = {}
  /\ fragile = PlatformCalls
  /\ \E radius \in LabRadii : inbox = <<CreateSkeleton(radius)>>
  /\ InitCommon

ProbeTypes == ConvertibleTypes \cup
              {"FRAME", "GROUP", "COMPONENT", "INSTANCE", "SLICE"}

ProbeSides == {3, 4, 50}

\* a frame with one child of any type, visibility and size; no call throws
InitProbeLab ==
  /\ \E type \in ProbeTypes, visible \in BOOLEAN,
        w \in ProbeSides, h \in ProbeSides :
       nodes = LabDocument(
                 [(IF type = "TEXT"
                   THEN NewText("Probe", 20, 30, w, h, 2, Uniform(Brand, 16),
                                AutoLineHeight)
                   ELSE NewNode(type, "Probe", 20, 30, w, h, <<>>, 2))
                    EXCEPT !.visible = visible])
  /\ nextId = 4
  /\ selection = <<2>>
  /\ unloadable = {}
  /\ fragile = {}
  /\ inbox = <<CreateSkeleton(Number(8))>>
  /\ InitCommon

\* Page
\*   Nest FRAME            [Outer INSTANCE]
\*     Outer INSTANCE      [Inner INSTANCE [Leaf RECT], Tag ELLIPSE]
NestDocument ==
  <<NewNode("PAGE", "Page", 0, 0, 0, 0, <<2>>, NoNode),
    NewNode("FRAME", "Nest", 0, 0, 300, 200, <<3>>, Page),
    NewNode("INSTANCE", "Outer", 10, 10, 200, 100, <<4, 6>>, 2),
    NewNode("INSTANCE", "Inner", 10, 10, 80, 80, <<5>>, 3),
    NewNode("RECTANGLE", "Leaf", 5, 5, 40, 40, <<>>, 4),
    NewNode("ELLIPSE", "Tag", 100, 10, 20, 20, <<>>, 3)>>

\* the frame or its outer instance is selected; detachInstance may throw
InitNestLab ==
  /\ nodes = NestDocument
  /\ nextId = Len(NestDocument) + 1
  /\ selection \in {<<2>>, <<3>>}
  /\ unloadable = {}
  /\ fragile = {"detach"}
  /\ inbox = <<CreateSkeleton(Number(8))>>
  /\ InitCommon

Init ==
  InitCards \/ InitTextLab \/ InitShapeLab \/ InitProbeLab \/ InitNestLab

\* the selections of the two-message sessions
TwiceSelections == {<<2>>, <<10>>, <<4>>, <<3, 12>>}

\* the Cards document with the button pressed twice; no call throws
InitTwice ==
  /\ nodes = CardsDocument
  /\ fragile = {}
  /\ nextId = Len(CardsDocument) + 1
  /\ selection \in TwiceSelections
  /\ unloadable \in {{}, AllFonts}
  /\ inbox = <<CreateSkeleton(Number(8)), CreateSkeleton(Number(8))>>
  /\ InitCommon

----------------------------------------------------------------------------
(* Runs *)

\* a run between two of its steps that the event loop cannot interrupt
Busy(r) == run[r].pc \notin {"font", "done"}

\* run r is the one the event loop may continue
Runnable(r) ==
  /\ r \in DOMAIN run
  /\ \A q \in DOMAIN run : q # r => ~Busy(q)

Notify(r, kind, arg) == Append(notices, [run |-> r, kind |-> kind, arg |-> arg])

NewRun(input, radius, sel, pc) ==
  [pc |-> pc, input |-> input, cornerRadius |-> radius, sel |-> sel, i |-> 1,
   processedFrames |-> <<>>, hasErrors |-> FALSE, root |-> NoNode,
   stack |-> <<>>, elementsToConvert |-> <<>>, j |-> 0,
   originalIndex |-> 0, fontSize |-> 0, lineHeightValue |-> 0,
   lineCount |-> 0, skeletonHeight |-> 0, yCursor |-> 0, bar |-> 0]

\* faulty variant: a negative number passes the validation
InvalidRadiusNonNumeric(given) == given.kind # "number"

\* line 85: typeof cornerRadius !== 'number' || cornerRadius < 0
InvalidRadius(given) == given.kind # "number" \/ given.val < 0

\* figma.ui.onmessage for 'create-skeleton' up to the selection loop
Deliver ==
  /\ inbox # <<>>
  /\ \A q \in DOMAIN run : ~Busy(q)
  /\ LET msg     == Head(inbox)
         r       == Len(run) + 1
         given   == IF msg.cornerRadius.kind = "undefined"
                    THEN Number(DefaultRadius) ELSE msg.cornerRadius
         invalid == InvalidRadius(given)
         radius  == IF invalid THEN DefaultRadius ELSE given.val
         warned  == IF invalid THEN Notify(r, "invalid-radius", "") ELSE notices
     IN  /\ inbox' = Tail(inbox)
         /\ notifiedFontFamilies' = {}
         /\ IF Len(selection) = 0
            THEN /\ notices' = Append(warned, [run |-> r, kind |-> "select-a-frame",
                                               arg |-> ""])
                 /\ run' = Append(run, NewRun(msg.cornerRadius, radius, selection,
                                              "done"))
            ELSE /\ notices' = warned
                 /\ run' = Append(run, NewRun(msg.cornerRadius, radius, selection,
                                              "loop"))
  /\ UNCHANGED <<nodes, nextId, selection, unloadable, faults, madeFor,
                 turnDone, failed, before, nodes0, fragile>>

Current(r) == run[r].sel[run[r].i]

InLoop(r) ==
  /\ Runnable(r)
  /\ run[r].pc = "loop"
  /\ run[r].i <= Len(run[r].sel)

ValidRootType(node) == node.type \in {"FRAME", "COMPONENT", "INSTANCE"}

Unusable(node) ==
  \/ node.locked
  \/ node.visible = FALSE
  \/ node.width < Px(MinSize)
  \/ node.height < Px(MinSize)

\* lines 106-110: a selected item of the wrong type
SkipInvalid(r) ==
  /\ InLoop(r)
  /\ ~ValidRootType(nodes[Current(r)])
  /\ run' = [run EXCEPT ![r].hasErrors = TRUE, ![r].i = @ + 1]
  /\ UNCHANGED <<nodes, nextId, selection, notifiedFontFamilies, notices, inbox,
                 unloadable, faults, madeFor, turnDone, failed, before, nodes0,
                 fragile>>

\* lines 113-117: a locked, invisible or too small frame
SkipUnusable(r) ==
  /\ InLoop(r)
  /\ ValidRootType(nodes[Current(r)])
  /\ Unusable(nodes[Current(r)])
  /\ run' = [run EXCEPT ![r].i = @ + 1]
  /\ UNCHANGED <<nodes, nextId, selection, notifiedFontFamilies, notices, inbox,
                 unloadable, faults, madeFor, turnDone, failed, before, nodes0,
                 fragile>>

\* faulty variant: every selected frame is taken for a nested one
isNestedFrameAlways(ns, n) == ns[n].parent # NoNode

\* line 120
isNestedFrame(ns, n) ==
  ns[n].parent # NoNode /\ ns[ns[n].parent].type = "FRAME"

\* the catch of lines 154-157, reached by an exception of one root
Thrown(r) ==
  /\ run' = [run EXCEPT ![r].pc = "done"]
  /\ notices' = Notify(r, "error", "")

\* lines 122-126 and 165-173: a nested frame is converted in place
BeginNested(r) ==
  /\ InLoop(r)
  /\ ValidRootType(nodes[Current(r)]) /\ ~Unusable(nodes[Current(r)])
  /\ isNestedFrame(nodes, Current(r))
  /\ run' = [run EXCEPT ![r].root = Current(r), ![r].stack = <<Current(r)>>,
                        ![r].pc = "detach"]
  /\ UNCHANGED <<nodes, nextId, selection, notifiedFontFamilies, notices, inbox,
                 unloadable, faults, madeFor, turnDone, failed, before, nodes0,
                 fragile>>

\* faulty variant: the duplicate is offset by the padding only
CloneXWithoutWidth(frame) == frame.x + Px(ClonePadding)

\* line 201: the duplicate stands beside its source
CloneX(frame) == frame.x + frame.width + Px(ClonePadding)

\* lines 127-130 and 192-207: a top-level frame is cloned, renamed and offset
BeginTopLevel(r) ==
  /\ InLoop(r)
  /\ ValidRootType(nodes[Current(r)]) /\ ~Unusable(nodes[Current(r)])
  /\ ~isNestedFrame(nodes, Current(r))
  /\ \/ /\ nextId + CloneSize(nodes, Current(r)) - 1 <= MaxNodes
        /\ LET frame  == nodes[Current(r)]
               cloned == CloneNode(nodes, Current(r), nextId)
           IN  nodes' = [cloned EXCEPT
                           ![nextId].name = frame.name \o " (Skeleton)",
                           ![nextId].x = CloneX(frame),
                           ![nextId].y = frame.y]
        /\ nextId' = nextId + CloneSize(nodes, Current(r))
        /\ run' = [run EXCEPT ![r].root = nextId, ![r].stack = <<nextId>>,
                              ![r].pc = "detach"]
        /\ UNCHANGED <<notices, faults, failed>>
     \/ /\ faults < MaxFaults          \* frame.clone() throws
        /\ "clone" \in fragile
        /\ faults' = faults + 1
        /\ failed' = failed \cup {<<Current(r), "clone">>}
        /\ Thrown(r)
        /\ UNCHANGED <<nodes, nextId>>
  /\ UNCHANGED <<selection, notifiedFontFamilies, inbox, unloadable, madeFor,
                 turnDone, before, nodes0, fragile>>

\* detachAllInstances, one visited node per step (lines 55-79)
\* faulty variant: the frame that detachInstance returns is not descended into
DetachedChildrenSkipped(ns, n) == <<>>

\* lines 62-68: the children of the frame that detachInstance returns
DetachedChildren(ns, n) == ns[n].children

DetachStep(r) ==
  /\ Runnable(r)
  /\ run[r].pc = "detach"
  /\ run[r].stack # <<>>
  /\ LET n == Head(run[r].stack) IN
       IF nodes[n].type = "INSTANCE"
       THEN \/ /\ nodes' = [nodes EXCEPT ![n].type = "FRAME"]
               /\ run' = [run EXCEPT
                            ![r].stack = DetachedChildren(nodes', n) \o Tail(@)]
               /\ UNCHANGED <<notices, faults, failed>>
            \/ /\ faults < MaxFaults   \* node.detachInstance() throws
               /\ "detach" \in fragile
               /\ faults' = faults + 1
               /\ failed' = failed \cup {<<n, "detach">>}
               /\ Thrown(r)
               /\ UNCHANGED nodes
       ELSE /\ run' = [run EXCEPT ![r].stack = nodes[n].children \o Tail(@)]
            /\ UNCHANGED <<nodes, notices, faults, failed>>
  /\ UNCHANGED <<nextId, selection, notifiedFontFamilies, inbox, unloadable,
                 madeFor, turnDone, before, nodes0, fragile>>

\* lines 222-260: the worklist of the root, once its instances are detached
Collect(r) ==
  /\ Runnable(r)
  /\ run[r].pc = "detach"
  /\ run[r].stack = <<>>
  /\ LET work == collectElements(nodes, run[r].root) IN
       run' = [run EXCEPT ![r].elementsToConvert = work, ![r].j = Len(work),
                          ![r].pc = "rewrite"]
  /\ before' = [p \in DOMAIN before \cup Subtree(nodes, run[r].root) |->
                  IF p \in Subtree(nodes, run[r].root) THEN nodes[p].children
                  ELSE before[p]]
  /\ UNCHANGED <<nodes, nextId, selection, notifiedFontFamilies, notices, inbox,
                 unloadable, faults, madeFor, turnDone, failed, nodes0,
                 fragile>>

----------------------------------------------------------------------------
(* 4.5 Node rewriter: convertElementToSkeleton, driven by convertToSkeleton *)

\* the steps of one placeholder's construction, in program order
BuildOrder == <<"create", "x", "y", "resize", "fills", "cornerRadius", "name",
                "insert", "remove">>

Step(p) == IndexOf(BuildOrder, p)

\* which platform calls of one rewrite step throw: at most the remaining
\* budget, and only calls the step gets to (nothing follows a thrown create
\* or insertChild)
FaultSets(points) ==
  {F \in SUBSET (points \cap fragile) :
     /\ Cardinality(F) <= MaxFaults - faults
     /\ "create" \in F => F = {"create"}
     /\ "insert" \in F => "remove" \notin F}

\* the node a failed call is recorded against: the element for create and
\* remove, the placeholder for the rest
FaultAt(e, id, p) == IF p \in {"create", "remove"} THEN e ELSE id

Element(r) == run[r].elementsToConvert[run[r].j]

InRewrite(r) ==
  /\ Runnable(r)
  /\ run[r].pc = "rewrite"
  /\ run[r].j > 0

\* the loop of lines 263-271 moves on to the element before
TurnOver(r) == [run EXCEPT ![r].j = @ - 1, ![r].pc = "rewrite",
                           ![r].originalIndex = 0, ![r].fontSize = 0,
                           ![r].lineHeightValue = 0, ![r].lineCount = 0,
                           ![r].skeletonHeight = 0, ![r].yCursor = 0,
                           ![r].bar = 0]

GrayFill == "SOLID(0.85,0.85,0.85)"

\* faulty variant: the ellipse case is forgotten
finalCornerRadiusConfigured(element, rect, cornerRadius) == Px(cornerRadius)

\* lines 496-499: ellipses take half the smaller side of the placeholder
finalCornerRadius(element, rect, cornerRadius) ==
  IF element.type = "ELLIPSE"
  THEN Min(rect.width, rect.height) \div 2
  ELSE Px(cornerRadius)

\* lines 468-513: the scene graph after the non-text rewrite of e, where the
\* calls named in F throw; each property assignment has its own try/catch
ShapeRewrite(ns, e, id, cornerRadius, F) ==
  IF "create" \in F THEN ns
  ELSE
    LET parent == ns[e].parent
        originalIndex == IndexOf(ns[parent].children, e)
        n0 == CreateRectangle(ns, id)
        n1 == IF "x" \in F THEN n0 ELSE [n0 EXCEPT ![id].x = ns[e].x]
        n2 == IF "y" \in F THEN n1 ELSE [n1 EXCEPT ![id].y = ns[e].y]
        n3 == IF "resize" \in F THEN n2
              ELSE [n2 EXCEPT ![id].width = ns[e].width,
                              ![id].height = ns[e].height]
        n4 == IF "fills" \in F THEN n3 ELSE [n3 EXCEPT ![id].fills = GrayFill]
        n5 == IF "cornerRadius" \in F THEN n4
              ELSE [n4 EXCEPT ![id].cornerRadius =
                                finalCornerRadius(ns[e], n4[id], cornerRadius)]
        n6 == IF "name" \in F THEN n5
              ELSE [n5 EXCEPT ![id].name = ns[e].name \o " (skeleton)"]
    IN  IF "insert" \in F THEN n6
        ELSE LET n7 == InsertChild(n6, parent, originalIndex, id)
             IN  IF "remove" \in F THEN n7 ELSE RemoveNode(n7, e)

\* one turn of the loop of lines 263-271 for a node that is not a text
ConvertShape(r) ==
  /\ InRewrite(r)
  /\ nodes[Element(r)].type # "TEXT"
  /\ nextId <= MaxNodes
  /\ IF nodes[Element(r)].parent = NoNode
     THEN UNCHANGED <<nodes, nextId, faults, madeFor, failed>>
     ELSE \E F \in FaultSets(SeqToSet(BuildOrder)) :
            /\ nodes' = ShapeRewrite(nodes, Element(r), nextId,
                                     run[r].cornerRadius, F)
            /\ faults' = faults + Cardinality(F)
            /\ failed' = failed \cup {<<FaultAt(Element(r), nextId, p), p>> : p \in F}
            /\ nextId' = IF "create" \in F THEN nextId ELSE nextId + 1
            /\ madeFor' = IF "create" \in F THEN madeFor
                          ELSE madeFor @@ (nextId :> [src |-> Element(r),
                                                      line |-> -1, by |-> r])
  /\ run' = TurnOver(r)
  /\ turnDone' = turnDone \cup {Element(r)}
  /\ UNCHANGED <<selection, notifiedFontFamilies, notices, inbox, unloadable,
                 before, nodes0, fragile>>

\* lines 316-322 and 406: a text node's turn starts and awaits its font
TextBegin(r) ==
  /\ InRewrite(r)
  /\ nodes[Element(r)].type = "TEXT"
  /\ LET parent == nodes[Element(r)].parent IN
       IF parent = NoNode
       THEN /\ run' = TurnOver(r)
            /\ turnDone' = turnDone \cup {Element(r)}
       ELSE /\ run' = [run EXCEPT ![r].pc = "font",
                         ![r].originalIndex =
                            IndexOf(nodes[parent].children, Element(r))]
            /\ UNCHANGED turnDone
  /\ UNCHANGED <<nodes, nextId, selection, notifiedFontFamilies, notices, inbox,
                 unloadable, faults, madeFor, failed, before, nodes0, fragile>>

\* faulty variant: the family is reported every time
ShouldNotifyAlways(family) == TRUE

\* line 392: a family is reported once per run
ShouldNotify(family) == family \notin notifiedFontFamilies

AtFont(r) ==
  /\ Runnable(r)
  /\ run[r].pc = "font"

\* lines 389-400 and 407-410: no font loads; warn once per family, skip the node
FontFailed(r) ==
  /\ AtFont(r)
  /\ LET res == getFontSizeAndLoadFont(nodes[Element(r)]) IN
       /\ ~res.ok
       /\ IF ShouldNotify(res.family)
          THEN /\ notifiedFontFamilies' = notifiedFontFamilies \cup {res.family}
               /\ notices' = Notify(r, "font-warning", res.family)
          ELSE UNCHANGED <<notifiedFontFamilies, notices>>
  /\ run' = TurnOver(r)
  /\ turnDone' = turnDone \cup {Element(r)}
  /\ UNCHANGED <<nodes, nextId, selection, inbox, unloadable, faults, madeFor,
                 failed, before, nodes0, fragile>>

\* lines 412-433: the metrics of the bars
FontLoaded(r) ==
  /\ AtFont(r)
  /\ LET node == nodes[Element(r)]
         res  == getFontSizeAndLoadFont(node)
         lhv  == LineHeightValue(node, res.fontSize)
     IN  /\ res.ok
         /\ run' = [run EXCEPT ![r].pc = "bars",
                      ![r].fontSize = res.fontSize,
                      ![r].lineHeightValue = lhv,
                      ![r].lineCount = LineCount(node.height, lhv),
                      ![r].skeletonHeight = SkeletonHeight(res.fontSize),
                      ![r].yCursor = node.y,
                      ![r].bar = 0]
  /\ UNCHANGED <<nodes, nextId, selection, notifiedFontFamilies, notices, inbox,
                 unloadable, faults, madeFor, turnDone, failed, before, nodes0,
                 fragile>>

\* faulty variant: every bar is inserted at the text node's own index
BarIndexStale(originalIndex, i) == originalIndex

\* line 455: bar i goes to originalIndex + i
BarIndex(originalIndex, i) == originalIndex + i

\* lines 436-455: the scene graph after bar i of e is built with the call
\* `fault` throwing ("none": no call throws); nothing here is caught
BarRewrite(ns, e, id, ctx, fault) ==
  LET done(p) == fault = "none" \/ Step(p) < Step(fault)
      parent == ns[e].parent
      n0 == CreateRectangle(ns, id)
      n1 == IF done("x") THEN [n0 EXCEPT ![id].x = ns[e].x] ELSE n0
      n2 == IF done("y") THEN [n1 EXCEPT ![id].y = ctx.yCursor] ELSE n1
      n3 == IF done("resize")
            THEN [n2 EXCEPT ![id].width = BarWidth(ns[e].width, ctx.bar,
                                                   ctx.lineCount),
                            ![id].height = ctx.skeletonHeight]
            ELSE n2
      n4 == IF done("fills") THEN [n3 EXCEPT ![id].fills = GrayFill] ELSE n3
      n5 == IF done("cornerRadius")
            THEN [n4 EXCEPT ![id].cornerRadius = Px(ctx.cornerRadius)] ELSE n4
      n6 == IF done("name")
            THEN [n5 EXCEPT ![id].name = ns[e].name \o " (skeleton line "
                                           \o ToString(ctx.bar + 1) \o ")"]
            ELSE n5
  IN  IF ~done("create") THEN ns
      ELSE IF done("insert")
           THEN InsertChild(n6, parent, BarIndex(ctx.originalIndex, ctx.bar), id)
           ELSE n6

BarFaults == {"create", "x", "y", "resize", "fills", "cornerRadius", "name",
              "insert"}

MoreBars(r) == run[r].lineCount = Infinite \/ run[r].bar < run[r].lineCount

\* one iteration of the loop of lines 435-459
TextBar(r) ==
  /\ Runnable(r)
  /\ run[r].pc = "bars"
  /\ MoreBars(r)
  /\ run[r].bar < MaxBars
  /\ nextId <= MaxNodes
  /\ \E fault \in {"none"} \cup (IF faults < MaxFaults THEN BarFaults \cap fragile ELSE {}) :
       /\ nodes' = BarRewrite(nodes, Element(r), nextId, run[r], fault)
       /\ nextId' = IF fault = "create" THEN nextId ELSE nextId + 1
       /\ madeFor' = IF fault = "create" THEN madeFor
                     ELSE madeFor @@ (nextId :> [src |-> Element(r),
                                                 line |-> run[r].bar,
                                                 by |-> r])
       /\ IF fault = "none"
          THEN /\ run' = [run EXCEPT ![r].bar = @ + 1,
                            ![r].yCursor = @ + run[r].lineHeightValue]
               /\ UNCHANGED <<faults, turnDone, failed>>
          ELSE /\ run' = TurnOver(r)        \* caught at line 268
               /\ faults' = faults + 1
               /\ failed' = failed \cup
                               {<<FaultAt(Element(r), nextId, fault), fault>>}
               /\ turnDone' = turnDone \cup {Element(r)}
  /\ UNCHANGED <<selection, notifiedFontFamilies, notices, inbox, unloadable,
                 before, nodes0, fragile>>

\* lines 461-463: the original text node is removed after its last bar
TextFinish(r) ==
  /\ Runnable(r)
  /\ run[r].pc = "bars"
  /\ ~MoreBars(r)
  /\ \/ /\ nodes' = RemoveNode(nodes, Element(r))
        /\ UNCHANGED <<faults, failed>>
     \/ /\ faults < MaxFaults              \* remove() throws
        /\ "remove" \in fragile
        /\ faults' = faults + 1
        /\ failed' = failed \cup {<<Element(r), "remove">>}
        /\ UNCHANGED nodes
  /\ run' = TurnOver(r)
  /\ turnDone' = turnDone \cup {Element(r)}
  /\ UNCHANGED <<nextId, selection, notifiedFontFamilies, notices, inbox,
                 unloadable, madeFor, before, nodes0, fragile>>

\* lines 126 and 131-133: the root is done and joins processedFrames
FinishRoot(r) ==
  /\ Runnable(r)
  /\ run[r].pc = "rewrite"
  /\ run[r].j = 0
  /\ run' = [run EXCEPT ![r].processedFrames = Append(@, run[r].root),
                        ![r].i = @ + 1, ![r].pc = "loop",
                        ![r].root = NoNode, ![r].elementsToConvert = <<>>]
  /\ UNCHANGED <<nodes, nextId, selection, notifiedFontFamilies, notices, inbox,
                 unloadable, faults, madeFor, turnDone, failed, before, nodes0,
                 fragile>>

\* lines 137-152: the new selection and the notices of the run
Summary(r) ==
  /\ Runnable(r)
  /\ run[r].pc = "loop"
  /\ run[r].i > Len(run[r].sel)
  /\ LET produced == run[r].processedFrames
         first == IF Len(produced) = 0 THEN Notify(r, "no-valid-frames", "")
                  ELSE IF Len(produced) = 1 THEN Notify(r, "success-one", "1")
                  ELSE Notify(r, "success-many", ToString(Len(produced)))
     IN  /\ selection' = IF Len(produced) > 0 THEN produced ELSE selection
         /\ notices' = IF run[r].hasErrors /\ Len(produced) > 0
                       THEN Append(first, [run |-> r, kind |-> "some-invalid",
                                           arg |-> ""])
                       ELSE first
  /\ run' = [run EXCEPT ![r].pc = "done"]
  /\ UNCHANGED <<nodes, nextId, notifiedFontFamilies, inbox, unloadable, faults,
                 madeFor, turnDone, failed, before, nodes0, fragile>>

Next ==
  \/ Deliver
  \/ \E r \in DOMAIN run : SkipInvalid(r)
  \/ \E r \in DOMAIN run : SkipUnusable(r)
  \/ \E r \in DOMAIN run : BeginNested(r)
  \/ \E r \in DOMAIN run : BeginTopLevel(r)
  \/ \E r \in DOMAIN run : DetachStep(r)
  \/ \E r \in DOMAIN run : Collect(r)
  \/ \E r \in DOMAIN run : ConvertShape(r)
  \/ \E r \in DOMAIN run : TextBegin(r)
  \/ \E r \in DOMAIN run : FontFailed(r)
  \/ \E r \in DOMAIN run : FontLoaded(r)
  \/ \E r \in DOMAIN run : TextBar(r)
  \/ \E r \in DOMAIN run : TextFinish(r)
  \/ \E r \in DOMAIN run : FinishRoot(r)
  \/ \E r \in DOMAIN run : Summary(r)

Spec == Init /\ [][Next]_vars

\* between two runs the user selects again what the last run started from
SelectAgain ==
  /\ inbox # <<>>
  /\ run # <<>>
  /\ \A q \in DOMAIN run : run[q].pc = "done"
  /\ selection # run[Len(run)].sel
  /\ selection' = run[Len(run)].sel
  /\ UNCHANGED <<nodes, nextId, notifiedFontFamilies, notices, inbox, run,
                 unloadable, faults, madeFor, turnDone, failed, before, nodes0,
                 fragile>>

NextTwice == Next \/ SelectAgain

\* two create-skeleton messages: the second is delivered while the first run
\* awaits a font, or after it, on its results or on the same selection again
SpecTwice == InitTwice /\ [][NextTwice]_vars

----------------------------------------------------------------------------
(* Vocabulary of the properties *)

Runs == DOMAIN run

\* the placeholders created for node e
Placeholders(e) == {p \in DOMAIN madeFor : madeFor[p].src = e}

\* a placeholder that insertChild has moved from the page into a parent
Inserted(p) == nodes[p].parent # Page /\ nodes[p].parent # NoNode

\* node e has had its turn and has left the tree
Converted(e) == e \in turnDone /\ nodes[e].parent = NoNode

NoticesOf(r, kinds) ==
  {k \in DOMAIN notices : notices[k].run = r /\ notices[k].kind \in kinds}

Finished(r) == run[r].pc = "done"

SummaryKinds == {"success-one", "success-many", "no-valid-frames"}

----------------------------------------------------------------------------
(* C1 *)

\* C1: once the rewrite turn of a convertible node is over, the node does not
\* stay in its parent beside a placeholder that was created for it.
C1_NotBothOriginalAndPlaceholder ==
  \A e \in turnDone : \A p \in Placeholders(e) :
    ~(nodes[e].parent # NoNode /\ nodes[p].parent = nodes[e].parent)

----------------------------------------------------------------------------
(* C2 *)

\* the child of parent p that c stands for: itself if it was collected as a
\* child of p, the collected child it was created for otherwise
Origin(p, c) ==
  IF /\ c \notin SeqToSet(before[p])
     /\ c \in DOMAIN madeFor
     /\ madeFor[c].src \in SeqToSet(before[p])
  THEN madeFor[c].src ELSE c

IsPlaceholderIn(p, c) == Origin(p, c) # c

RECURSIVE Dedup(_)
\* a sequence with each run of equal neighbours collapsed to one element
Dedup(s) ==
  IF Len(s) <= 1 THEN s
  ELSE IF s[1] = s[2] THEN Dedup(Tail(s))
  ELSE <<s[1]>> \o Dedup(Tail(s))

Origins(p) ==
  [k \in 1..Len(nodes[p].children) |-> Origin(p, nodes[p].children[k])]

\* the placeholders of one child stand in bar order, before the child itself
BarsInOrder(p) ==
  LET kids == nodes[p].children IN
  \A k \in 1..Len(kids) :
    /\ IsPlaceholderIn(p, kids[k]) =>
         IF k > 1 /\ Origin(p, kids[k-1]) = Origin(p, kids[k])
         THEN /\ IsPlaceholderIn(p, kids[k-1])
              /\ madeFor[kids[k]].line = madeFor[kids[k-1]].line + 1
              /\ madeFor[kids[k]].line >= 1
         ELSE madeFor[kids[k]].line \in {-1, 0}
    /\ (~IsPlaceholderIn(p, kids[k]) /\ k < Len(kids)) =>
         Origin(p, kids[k+1]) # kids[k]

\* how many bars the text node e is due: lineCount of lines 412-430
BarsDue(e) ==
  LET res == getFontSizeAndLoadFont(nodes[e])
  IN  LineCount(nodes[e].height, LineHeightValue(nodes[e], res.fontSize))

\* a converted child is replaced by one placeholder, a text by lineCount bars
RunLength(p) ==
  \A e \in SeqToSet(before[p]) :
    (e \notin SeqToSet(nodes[p].children) /\ e \in turnDone) =>
      Cardinality({c \in SeqToSet(nodes[p].children) : Origin(p, c) = e})
        = IF nodes[e].type = "TEXT" THEN BarsDue(e) ELSE 1

\* C2: in every parent of a collected subtree the children keep the order they
\* had when collected, each converted child being replaced, at its own place,
\* by its placeholder or by the contiguous run of its bars in bar order.
C2_SiblingOrderKept ==
  \A p \in DOMAIN before :
    /\ Dedup(Origins(p)) = before[p]
    /\ BarsInOrder(p)
    /\ RunLength(p)

\* a parent [A, B, C] whose A became two bars or more, whose C became one
\* placeholder and whose B stayed between them
C2_Witness ==
  \E p \in DOMAIN before :
    LET was == before[p]
        kids == nodes[p].children
    IN  /\ Len(was) = 3 /\ Len(kids) >= 4
        /\ Converted(was[1]) /\ Converted(was[3])
        /\ kids[Len(kids) - 1] = was[2]
        /\ Origin(p, kids[1]) = was[1] /\ Origin(p, kids[2]) = was[1]
        /\ Origin(p, kids[Len(kids)]) = was[3]

----------------------------------------------------------------------------
(* C3 *)

\* the selected items that the loop of lines 104-135 clones: of a root type,
\* usable, and with a parent that is not a FRAME (read off the initial graph)
TopLevelRoots(r) ==
  {n \in SeqToSet(run[r].sel) :
     /\ nodes0[n].type \in {"FRAME", "COMPONENT", "INSTANCE"}
     /\ ~nodes0[n].locked /\ nodes0[n].visible
     /\ nodes0[n].width >= Px(MinSize) /\ nodes0[n].height >= Px(MinSize)
     /\ nodes0[nodes0[n].parent].type # "FRAME"}

\* the selected items that are converted in place
NestedRoots(r) ==
  {n \in SeqToSet(run[r].sel) :
     /\ nodes0[n].type \in {"FRAME", "COMPONENT", "INSTANCE"}
     /\ nodes0[nodes0[n].parent].type = "FRAME"}

----------------------------------------------------------------------------
(* C4, C5 *)

\* C4: a finished run over a non-empty selection has attempted every root, and
\* the roots it produced are the selection and are reported.
C4_LaterRootsStillAttempted ==
  \A r \in Runs :
    (Finished(r) /\ Len(run[r].sel) > 0) =>
      /\ run[r].i > Len(run[r].sel)
      /\ Len(run[r].processedFrames) > 0 =>
           /\ selection = run[r].processedFrames
           /\ NoticesOf(r, {"success-one", "success-many"}) # {}

\* C5: a finished run over a non-empty selection has reported its summary: a
\* success count or the "no valid frames" message.
C5_SummaryAlwaysReported ==
  \A r \in Runs :
    (Finished(r) /\ Len(run[r].sel) > 0) => NoticesOf(r, SummaryKinds) # {}

----------------------------------------------------------------------------
(* C6 *)

\* n = max(1, round(h / lh)) for lh # 0, stated without the division
IsLineCount(n, h, lh) ==
  IF lh < 0 THEN n = 1
  ELSE IF 2 * h < 3 * lh THEN n = 1
  ELSE (2 * n - 1) * lh <= 2 * h /\ 2 * h < (2 * n + 1) * lh

\* H = max(6, round(0.7 * fontSize)) pixels
IsBarHeight(H, fontSize) ==
  \E k \in 0..fontSize :
    /\ 10 * (2 * k - 1) <= 14 * fontSize
    /\ 14 * fontSize < 10 * (2 * k + 1)
    /\ H = Px(IF k > 6 THEN k ELSE 6)

InsertedBars(e) ==
  {p \in Placeholders(e) : madeFor[p].line >= 0 /\ Inserted(p)}

\* C6: every bar inserted for a text node with resolved metrics (fontSize,
\* lineHeightPx) is at (x, y + i * lineHeightPx), max(6, round(0.7 fontSize))
\* high, as wide as the node except the last, which is 0.6 of it; a converted
\* text node has exactly max(1, round(height / lineHeightPx)) bars, 0..n-1.
C6_TextBars ==
  \A e \in DOMAIN nodes :
    nodes[e].type = "TEXT" =>
      LET node == nodes[e]
          fs == getFontSizeAndLoadFont(node).fontSize
          lh == LineHeightValue(node, fs)
          bars == InsertedBars(e)
      IN  /\ \A p \in bars :
               LET i == madeFor[p].line IN
               /\ nodes[p].x = node.x
               /\ nodes[p].y = node.y + i * lh
               /\ IsBarHeight(nodes[p].height, fs)
               /\ IF lh # 0 /\ IsLineCount(i + 1, node.height, lh)
                  THEN 10 * nodes[p].width = 6 * node.width
                  ELSE nodes[p].width = node.width
          /\ Converted(e) =>
               /\ lh # 0
               /\ IsLineCount(Cardinality(bars), node.height, lh)
               /\ {madeFor[p].line : p \in bars} = 0..(Cardinality(bars) - 1)

\* the text of height 60 and line height 20: three bars, two as wide as the
\* node and the last at 0.6 of it
C6_Witness ==
  \E e \in DOMAIN nodes :
    /\ nodes[e].type = "TEXT" /\ Converted(e)
    /\ nodes[e].height = Px(60)
    /\ LineHeightValue(nodes[e], getFontSizeAndLoadFont(nodes[e]).fontSize) = Px(20)
    /\ Cardinality(InsertedBars(e)) = 3
    /\ \E p \in InsertedBars(e) : 10 * nodes[p].width = 6 * nodes[e].width
    /\ Cardinality({p \in InsertedBars(e) : nodes[p].width = nodes[e].width}) = 2

----------------------------------------------------------------------------
(* C7 *)

EllipsePlaceholders ==
  {p \in DOMAIN madeFor : nodes[madeFor[p].src].type = "ELLIPSE"}

\* C7 as claimed: the placeholder of a rewritten ellipse has the corner radius
\* min(width, height) / 2 of the source ellipse.
C7_EllipseRadiusOfSource ==
  \A p \in EllipsePlaceholders :
    LET e == madeFor[p].src IN
    (Converted(e) /\ Inserted(p)) =>
      2 * nodes[p].cornerRadius = Min(nodes[e].width, nodes[e].height)

\* C7 amended: the corner radius is half the smaller side of the placeholder
\* itself, whatever radius is configured: of the source ellipse's size when
\* resize succeeded, of the default 100 x 100 when it threw; the radius stays
\* the default 0 when its own assignment threw.
C7_EllipseRadiusOfPlaceholder ==
  \A p \in EllipsePlaceholders :
    LET e == madeFor[p].src IN
    /\ nodes[p].width = IF <<p, "resize">> \in failed
                        THEN Px(DefaultRectSize) ELSE nodes[e].width
    /\ nodes[p].height = IF <<p, "resize">> \in failed
                         THEN Px(DefaultRectSize) ELSE nodes[e].height
    /\ 2 * nodes[p].cornerRadius =
         IF <<p, "cornerRadius">> \in failed THEN 0
         ELSE IF <<p, "resize">> \in failed THEN Px(DefaultRectSize)
         ELSE Min(nodes[e].width, nodes[e].height)

\* the 40 x 60 ellipse converted in a run configured with radius 8: radius 20
C7_Witness ==
  \E p \in EllipsePlaceholders :
    LET e == madeFor[p].src IN
    /\ Converted(e) /\ Inserted(p)
    /\ nodes[e].width = Px(40) /\ nodes[e].height = Px(60)
    /\ \E r \in Runs : run[r].cornerRadius = 8
    /\ nodes[p].cornerRadius = Px(20)

----------------------------------------------------------------------------
(* C8 *)

Warnings(r, family) ==
  Cardinality({k \in NoticesOf(r, {"font-warning"}) : notices[k].arg = family})

\* the text nodes whose turn is over
TextsDone == {e \in turnDone : nodes[e].type = "TEXT"}

FamiliesOf(e) == {nodes[e].ranges[k].family : k \in 1..Len(nodes[e].ranges)}

\* C8 as claimed: a finished run has warned exactly once about every family
\* that cannot be loaded and that a text node of the run uses.
C8_OneWarningPerUnloadableFamily ==
  \A r \in Runs :
    Finished(r) =>
      \A family \in unloadable :
        (\E e \in TextsDone : family \in FamiliesOf(e)) => Warnings(r, family) = 1

\* a uniform-font text node whose own family and all four fallbacks fail
Unavailable(e) ==
  /\ Cardinality(FamiliesOf(e)) = 1
  /\ FamiliesOf(e) \subseteq unloadable
  /\ SeqToSet(FallbackFonts) \subseteq unloadable

\* C8 amended: a run warns at most once about a family, and exactly once about
\* each family of a uniform-font text node that found neither its own font nor
\* any fallback; a family whose fallback loads, or that only occurs in
\* mixed-font text nodes, is not reported.
C8_OneWarningPerUnavailableFamily ==
  \A r \in Runs : \A family \in AllFonts \cup {"MIXED"} :
    Warnings(r, family) =
      IF \E e \in TextsDone : Unavailable(e) /\ family \in FamiliesOf(e)
      THEN 1 ELSE 0

\* two text nodes of one family, neither loadable, and one warning
C8_Witness ==
  \E r \in Runs : \E a, b \in TextsDone :
    /\ a # b
    /\ Unavailable(a) /\ Unavailable(b)
    /\ FamiliesOf(a) = FamiliesOf(b)
    /\ \A family \in FamiliesOf(a) : Warnings(r, family) = 1

----------------------------------------------------------------------------
(* C9, C10 *)

\* C9: when a run that produced results has ended, the current selection is
\* the list of those results, in selection order.
C9_SelectionIsTheResults ==
  \A r \in Runs :
    (Finished(r) /\ Len(run[r].processedFrames) > 0) =>
      selection = run[r].processedFrames

\* the selected items the loop skipped: wrong type, locked, invisible or small
SkippedItems(r) ==
  {k \in 1..Len(run[r].sel) :
     LET node == nodes0[run[r].sel[k]] IN
     \/ node.type \notin {"FRAME", "COMPONENT", "INSTANCE"}
     \/ node.locked \/ ~node.visible
     \/ node.width < Px(MinSize) \/ node.height < Px(MinSize)}

\* C10: a run that reported a success and skipped an invalid item has also
\* emitted the "some selections were invalid" warning.
C10_InvalidItemsReported ==
  \A r \in Runs :
    (/\ Finished(r)
     /\ NoticesOf(r, {"success-one", "success-many"}) # {}
     /\ SkippedItems(r) # {}) =>
      NoticesOf(r, {"some-invalid"}) # {}

----------------------------------------------------------------------------
(* C11 *)

\* the placeholders of run r that are in a parent and are not an ellipse's
PlainPlaceholders(r) ==
  {p \in DOMAIN madeFor :
     /\ madeFor[p].by = r
     /\ Inserted(p)
     /\ nodes[madeFor[p].src].type # "ELLIPSE"}

\* the input of run r is a negative number or not a number at all
BadInput(r) ==
  \/ run[r].input.kind = "string"
  \/ run[r].input.kind = "number" /\ run[r].input.val < 0

\* C11: a run whose cornerRadius input is negative or not a number works with
\* 24 and has emitted the invalid-radius notice exactly once; a run with a
\* valid number works with that number and has emitted no such notice; the
\* value is the radius of every non-ellipse placeholder (text bars included)
\* whose radius assignment did not throw.
C11_InvalidRadiusBecomesDefault ==
  \A r \in Runs :
    LET expected == IF BadInput(r) \/ run[r].input.kind = "undefined"
                    THEN 24 ELSE run[r].input.val
    IN  /\ run[r].cornerRadius = expected
        /\ Cardinality(NoticesOf(r, {"invalid-radius"})) =
             IF BadInput(r) THEN 1 ELSE 0
        /\ \A p \in PlainPlaceholders(r) :
             <<p, "cornerRadius">> \notin failed =>
               nodes[p].cornerRadius = expected * 100

\* a finished run with input -5 or "abc" whose placeholder has the radius 24
C11_Witness ==
  \E r \in Runs :
    /\ Finished(r) /\ BadInput(r)
    /\ \E p \in PlainPlaceholders(r) : nodes[p].cornerRadius = 2400
    /\ Cardinality(NoticesOf(r, {"invalid-radius"})) = 1

----------------------------------------------------------------------------
(* C12 *)

\* what the eligibility test is to answer for a node record
Eligible(node) ==
  /\ node.visible
  /\ node.width >= 400 /\ node.height >= 400
  /\ node.type \in {"TEXT", "RECTANGLE", "ELLIPSE", "VECTOR", "POLYGON", "STAR",
                    "BOOLEAN_OPERATION", "LINE"}

\* run r has just collected the worklist of its root
JustCollected(r) ==
  /\ run[r].pc = "rewrite"
  /\ run[r].j = Len(run[r].elementsToConvert)
  /\ run[r].root # NoNode

\* C12: shouldConvertToSkeleton is false for a null node, false for every
\* invisible node and every node narrower or lower than 4, true for the other
\* nodes of the eight convertible types and false for frames, groups,
\* components, instances and other types; the worklist a root is given holds
\* exactly the nodes of its subtree for which this is true.
C12_Eligibility ==
  /\ ~shouldConvertToSkeleton(Null)
  /\ \A n \in DOMAIN nodes :
       /\ shouldConvertToSkeleton(nodes[n]) = Eligible(nodes[n])
       /\ nodes[n].type \in {"FRAME", "GROUP", "COMPONENT", "INSTANCE", "SLICE",
                             "PAGE"} => ~shouldConvertToSkeleton(nodes[n])
  /\ \A r \in Runs :
       JustCollected(r) =>
         SeqToSet(run[r].elementsToConvert) =
           {n \in Subtree(nodes, run[r].root) : Eligible(nodes[n])}

\* a worklist just collected that took a node and left out a too-small node of
\* a convertible type
C12_Witness ==
  \E r \in Runs :
    /\ JustCollected(r)
    /\ run[r].elementsToConvert # <<>>
    /\ \E n \in Subtree(nodes, run[r].root) :
         /\ nodes[n].type = "RECTANGLE"
         /\ nodes[n].width < 400
         /\ n \notin SeqToSet(run[r].elementsToConvert)

----------------------------------------------------------------------------
(* C13 *)

\* runs 1 and 2 have both ended, the first on one top-level original and the
\* second on that original again or on the first run's duplicate, and each
\* produced a duplicate
TwoDuplicates ==
  /\ Len(run) = 2
  /\ Finished(1) /\ Finished(2)
  /\ Len(run[1].sel) = 1
  /\ nodes0[run[1].sel[1]].parent = Page
  /\ Len(run[1].processedFrames) = 1 /\ Len(run[2].processedFrames) = 1
  /\ run[2].sel \in {run[1].sel, run[1].processedFrames}

Original == run[1].sel[1]
FirstDuplicate == run[1].processedFrames[1]
SecondDuplicate == run[2].processedFrames[1]
Chained == run[2].sel = run[1].processedFrames

\* the duplicates are distinct nodes with disjoint subtrees outside the
\* original, and the original's subtree is as it was
Independent ==
  /\ FirstDuplicate # SecondDuplicate
  /\ FirstDuplicate \notin DOMAIN nodes0 /\ SecondDuplicate \notin DOMAIN nodes0
  /\ Subtree(nodes, FirstDuplicate) \cap Subtree(nodes, SecondDuplicate) = {}
  /\ \A n \in Subtree(nodes0, Original) : nodes[n] = nodes0[n]

\* C13 as claimed: two runs on the same top-level original give two distinct,
\* independent duplicates at increasing x-offsets from the original, and the
\* original is not mutated.
C13_IncreasingOffsets ==
  TwoDuplicates =>
    /\ Independent
    /\ nodes[FirstDuplicate].x = nodes0[Original].x + nodes0[Original].width + 5000
    /\ nodes[SecondDuplicate].x > nodes[FirstDuplicate].x

\* C13 amended: the duplicates are distinct and independent and the original
\* is not mutated; the first is offset by width + 50; the second is offset by
\* 2 * (width + 50) when the second run is chained on the first result, and
\* by width + 50 again, at the very place of the first, when the second run
\* starts from the original itself.
C13_OffsetsChainedOrEqual ==
  TwoDuplicates =>
    LET step == nodes0[Original].width + 5000 IN
    /\ Independent
    /\ nodes[FirstDuplicate].x = nodes0[Original].x + step
    /\ nodes[FirstDuplicate].y = nodes0[Original].y
    /\ nodes[SecondDuplicate].y = nodes0[Original].y
    /\ nodes[SecondDuplicate].x =
         IF Chained THEN nodes0[Original].x + 2 * step
         ELSE nodes0[Original].x + step

\* two ended runs, the second chained on the first result
C13_Witness ==
  /\ TwoDuplicates
  /\ Chained
  /\ nodes[SecondDuplicate].x =
       nodes0[Original].x + 2 * (nodes0[Original].width + 5000)

----------------------------------------------------------------------------
(* C14 *)

PropertyCalls == {"x", "y", "resize", "fills", "cornerRadius", "name"}

\* a call that makes, inserts or removes a node threw during the turn of e
TreeCallFailed(e) ==
  \/ <<e, "create">> \in failed
  \/ <<e, "remove">> \in failed
  \/ \E q \in Placeholders(e) : <<q, "insert">> \in failed

\* C14: when a property assignment on a placeholder (a text bar or a non-text
\* placeholder) threw and no other call did, the turn of its node still ended
\* with the placeholder inserted and the original removed.
C14_AssignmentFailureIsCaught ==
  \A e \in turnDone : \A p \in Placeholders(e) :
    ((\E c \in PropertyCalls : <<p, c>> \in failed) /\ ~TreeCallFailed(e)) =>
      Inserted(p) /\ Converted(e)

----------------------------------------------------------------------------
(* C15 *)

\* C15: whenever the bars of a text node are being built, the number of bars
\* due is finite, whatever line height the node carries, so the loop of the
\* bars ends.
C15_FinitelyManyBars ==
  \A r \in Runs :
    run[r].pc = "bars" =>
      /\ run[r].lineCount # Infinite
      /\ run[r].lineCount >= 1
      /\ run[r].bar <= run[r].lineCount

----------------------------------------------------------------------------
(* C16 *)

\* the largest font size among the character sub-ranges of a text node
LargestRangeSize(node) ==
  LET sizes == {node.ranges[k].size : k \in 1..Len(node.ranges)}
  IN  CHOOSE s \in sizes : \A t \in sizes : t <= s

\* C16: while the bars of a text node with mixed fonts are built, the font
\* size the rewrite works with is the largest size among the node's
\* character sub-ranges, also when all of them are below 16.
C16_MixedFontSizeIsLargest ==
  \A r \in Runs :
    (run[r].pc = "bars" /\ FontIsMixed(nodes[Element(r)])) =>
      run[r].fontSize = LargestRangeSize(nodes[Element(r)])

----------------------------------------------------------------------------
(* C17 *)

\* run r awaits the font of a uniform-font text node that finds neither its
\* own font nor a fallback
AwaitsUnavailable(r) ==
  /\ run[r].pc = "font"
  /\ Unavailable(Element(r))

\* C17: when neither the own font of a uniform-font text node nor any fallback
\* loads, the step that ends the node's turn leaves the scene graph as it is
\* (the node keeps its parent and index, nothing is created or inserted) and
\* moves on to the element before it in the worklist; such a node never has a
\* placeholder, and every element behind the cursor has had its turn.
C17_FontFailureSkipsTheNode ==
  /\ [](\A r \in Runs :
          /\ \A e \in TextsDone :
               Unavailable(e) =>
                  Placeholders(e) = {} /\ nodes[e].parent # NoNode
          /\ run[r].pc \in {"rewrite", "font", "bars"} =>
               \A k \in (run[r].j + 1)..Len(run[r].elementsToConvert) :
                  run[r].elementsToConvert[k] \in turnDone)
  /\ [][\A r \in Runs :
          (AwaitsUnavailable(r) /\ run'[r] # run[r]) =>
             /\ nodes' = nodes /\ nextId' = nextId /\ madeFor' = madeFor
             /\ run'[r].pc = "rewrite"
             /\ run'[r].j = run[r].j - 1
             /\ run'[r].elementsToConvert = run[r].elementsToConvert
             /\ run'[r].root = run[r].root
             /\ Element(r) \in turnDone']_vars

\* a text node was skipped for want of a font, is still the child of its
\* parent, and a shape before it in the worklist was replaced afterwards
C17_Witness ==
  \E r \in Runs : \E k, m \in 1..Len(run[r].elementsToConvert) :
    LET e == run[r].elementsToConvert[k]
        d == run[r].elementsToConvert[m]
    IN  /\ m < k
        /\ e \in TextsDone /\ Unavailable(e)
        /\ IndexOf(nodes[nodes[e].parent].children, e) > 0
        /\ Placeholders(e) = {}
        /\ nodes[d].type # "TEXT" /\ Converted(d)
        /\ \E p \in Placeholders(d) : Inserted(p)

----------------------------------------------------------------------------
(* C18 *)

\* run r has detached the instances of its root and works on the worklist
Flattened(r) == run[r].pc \in {"rewrite", "font", "bars"}

\* C18: once the instances of a root are detached without a failure, no node
\* under the root is an instance, nested ones included, so no node of the
\* worklist has an instance above it; a node changes its type only by being
\* detached, from instance to frame, when the traversal stands on it, so each
\* instance is detached once.
C18_NoInstanceLeft ==
  /\ [](\A r \in Runs :
          Flattened(r) =>
            /\ \A n \in Subtree(nodes, run[r].root) : nodes[n].type # "INSTANCE"
            /\ \A k \in 1..Len(run[r].elementsToConvert) :
                 \A a \in DOMAIN nodes :
                   run[r].elementsToConvert[k] \in Subtree(nodes, a) =>
                     nodes[a].type # "INSTANCE")
  /\ [][\A n \in DOMAIN nodes :
          nodes'[n].type # nodes[n].type =>
            /\ nodes[n].type = "INSTANCE" /\ nodes'[n].type = "FRAME"
            /\ \E r \in Runs :
                 /\ run[r].pc = "detach"
                 /\ n = Head(run[r].stack)
                 /\ n \notin SeqToSet(run'[r].stack)
                 /\ n \in Subtree(nodes, run[r].root)]_vars

\* an instance and the instance inside it have both become frames
C18_Witness ==
  \E r \in Runs :
    /\ Flattened(r)
    /\ \E a, b \in Subtree(nodes, run[r].root) :
         /\ a \in DOMAIN nodes0 /\ b \in DOMAIN nodes0
         /\ nodes0[a].type = "INSTANCE" /\ nodes0[b].type = "INSTANCE"
         /\ nodes[b].parent = a
         /\ nodes[a].type = "FRAME" /\ nodes[b].type = "FRAME"

----------------------------------------------------------------------------
(* C19 *)

\* the eligible nodes under n, depth first, parents before children
EligiblePreorder(ns, n) == SelectSeq(Preorder(ns, n), LAMBDA m : Eligible(ns[m]))

\* node c is selected item k of run r, or the duplicate made of it
RootOfItem(r, c, k) ==
  \/ c = run[r].sel[k]
  \/ /\ c \notin DOMAIN nodes0
     /\ nodes[c].name = nodes[run[r].sel[k]].name \o " (Skeleton)"

\* C19: a run takes its selected items in selection order, one at a time: the
\* root it works on belongs to the item the selection loop stands at, the
\* results so far are in selection order, and the loop moves on by one item
\* only between two roots.  The worklist of a root is the pre-order list of
\* its eligible nodes, without repetition; the turns go from its last element
\* to its first, one element at a time, and every placeholder made and every
\* node removed in between belongs to the element whose turn it is.
C19_RootsInOrderNodesInReverse ==
  /\ [](\A r \in Runs :
          /\ run[r].root # NoNode =>
               /\ run[r].i <= Len(run[r].sel)
               /\ RootOfItem(r, run[r].root, run[r].i)
               /\ Len(run[r].processedFrames) < run[r].i
          /\ \A a, b \in 1..Len(run[r].processedFrames) :
               a < b =>
                 \E k, m \in 1..Len(run[r].sel) :
                   /\ k < m /\ m < run[r].i
                   /\ RootOfItem(r, run[r].processedFrames[a], k)
                   /\ RootOfItem(r, run[r].processedFrames[b], m)
          /\ JustCollected(r) =>
               run[r].elementsToConvert = EligiblePreorder(nodes, run[r].root)
          /\ \A a, b \in 1..Len(run[r].elementsToConvert) :
               a # b => run[r].elementsToConvert[a] # run[r].elementsToConvert[b]
          /\ Flattened(r) =>
               \A k \in (run[r].j + 1)..Len(run[r].elementsToConvert) :
                  run[r].elementsToConvert[k] \in turnDone)
  /\ [][\A r \in Runs :
          /\ run'[r].i # run[r].i =>
               /\ run'[r].i = run[r].i + 1
               /\ run[r].pc = "loop" \/ (run[r].pc = "rewrite" /\ run[r].j = 0)
               /\ run'[r].root = NoNode
          /\ (run'[r].root # run[r].root /\ run[r].root # NoNode) =>
               /\ run'[r].root = NoNode
               /\ run[r].j = 0 \/ run'[r].pc = "done"
          /\ (run'[r].j # run[r].j /\ run[r].pc # "detach") =>
               /\ run[r].pc \in {"rewrite", "font", "bars"}
               /\ run'[r].j = run[r].j - 1
               /\ run'[r].elementsToConvert = run[r].elementsToConvert
               /\ Element(r) \in turnDone'
          /\ (run'[r].elementsToConvert # run[r].elementsToConvert) =>
               \/ run[r].pc = "detach" /\ run'[r].j = Len(run'[r].elementsToConvert)
               \/ run[r].j = 0 /\ run'[r].elementsToConvert = <<>>
          /\ turnDone' # turnDone =>
               Flattened(r) /\ turnDone' = turnDone \cup {Element(r)}
          /\ Flattened(r) =>
               /\ \A p \in DOMAIN madeFor' \ DOMAIN madeFor :
                    madeFor'[p].src = Element(r)
               /\ \A n \in DOMAIN nodes :
                    (nodes[n].parent # NoNode /\ nodes'[n].parent = NoNode) =>
                      n = Element(r)]_vars

\* a run has finished two roots, the second with a worklist of several nodes
\* that all had their turn
C19_Witness ==
  \E r \in Runs :
    /\ Len(run[r].processedFrames) = 1
    /\ run[r].i = 2
    /\ run[r].root # NoNode
    /\ run[r].pc = "rewrite" /\ run[r].j = 0
    /\ Len(run[r].elementsToConvert) >= 2
    /\ \A k \in 1..Len(run[r].elementsToConvert) :
         run[r].elementsToConvert[k] \in turnDone

----------------------------------------------------------------------------
(* C20 *)

\* a later run exists only when every run before it has ended
OneRunAtATime == \A r, q \in Runs : r < q => Finished(r)

\* the families a run has warned about stay in the set of notified families
\* while the run lasts
NotifiedKept ==
  \A r \in Runs :
    ~Finished(r) =>
      \A k \in NoticesOf(r, {"font-warning"}) :
        notices[k].arg \in notifiedFontFamilies

\* C20: runs never interleave: a message that arrives while a run is suspended
\* starts no second run before the first has ended, and the set of notified
\* font families of the first run is not reset in between.
C20_RunsNeverInterleave == OneRunAtATime /\ NotifiedKept

====
